---------------------------- MODULE Spec2Model ----------------------------
(***************************************************************************)
(* A model of unipp, a single-header C++ unit-test framework.              *)
(*                                                                         *)
(* The repository holds two copies of the header:                          *)
(*   src/unipp/unipp.hpp  - Fail / Warning exceptions, UnitTest::Run,      *)
(*                          Benchmark            (variant "W" below)       *)
(*   src/unipp.hpp        - setup / teardown hooks with a configurable     *)
(*                          timing, TestRunner::RunTest (variant "H")      *)
(*                                                                         *)
(* A test function is a sequence of statements (the checking macros, or a  *)
(* throw of the user's own); the runner's output and the invocations of    *)
(* test functions and hooks are recorded, in order, in the sequence out.   *)
(***************************************************************************)
EXTENDS Integers, Sequences, FiniteSets, TLC

VARIABLES
    entry,          \* "RunAll": RUN(items...); "Run": items[1].Run() called on the object
    items,          \* the arguments of RunAll, in argument order
    pc,             \* where the runner is
    pos,            \* index of the argument RunAll is at
    tpos,           \* index of the test the suite's loop is at
    suite,          \* the TestSuite object whose Run() is executing (RunAll's by-value parameter)
    out,            \* output lines and invocations, in order
    iterations,     \* Benchmark: its iterations argument
    elapsed,        \* Benchmark: end - start of every call made so far, in nanoseconds
    total_time,     \* Benchmark: the milliseconds accumulated
    result,         \* Benchmark: the BenchmarkResult returned
    bpc,            \* Benchmark: where it is
    body,           \* a test function being executed statement by statement
    stmt,           \* index of its next statement
    raised          \* what that test function has raised

vars == << entry, items, pc, pos, tpos, suite, out,
           iterations, elapsed, total_time, result, bpc, body, stmt, raised >>

runnerVars == << entry, items, pc, pos, tpos, suite, out >>
benchVars  == << iterations, elapsed, total_time, result, bpc >>
checkVars  == << body, stmt, raised >>

--------------------------------------------------------------------------
(* Bounds *)

\* The size of a program: a standalone test counts 1, a suite 1 + its number of tests.
MaxSize == 4
\* The largest iterations argument given to Benchmark.
MaxIterations == 3
\* The most statements of a generated test function.
MaxStmts == 2

--------------------------------------------------------------------------
(* The checking macros and the execution of a test function *)

\* One statement of a test function: a use of a checking macro on two
\* operands (the one-operand macros read a only), or a throw of the user's.
Chk(op, a, b, msg) == [op |-> op, a |-> a, b |-> b, msg |-> msg]

Relations == { "EQUAL", "NOT_EQUAL", "GREATER", "GREATER_EQUAL", "LESS",
               "LESS_EQUAL", "TRUE", "FALSE", "NULL", "NOT_NULL" }

\* The condition under which the macro of relation rel raises: the `if (...)`
\* of its #define. 0 stands for false and for nullptr.
Violated(rel, a, b) ==
    CASE rel = "EQUAL"         -> a # b
      [] rel = "NOT_EQUAL"     -> a = b
      [] rel = "GREATER"       -> a <= b
      [] rel = "GREATER_EQUAL" -> a < b
      [] rel = "LESS"          -> a >= b
      [] rel = "LESS_EQUAL"    -> a > b
      [] rel = "TRUE"          -> a = 0
      [] rel = "FALSE"         -> a # 0
      [] rel = "NULL"          -> a # 0
      [] rel = "NOT_NULL"      -> a = 0

AssertOps == { "ASSERT_" \o r : r \in Relations }
ExpectOps == { "EXPECT_" \o r : r \in Relations }

RelationOf(op) == CHOOSE r \in Relations : op \in { "ASSERT_" \o r, "EXPECT_" \o r }

\* PANIC(msg): unipp::Fail in src/unipp/unipp.hpp, std::runtime_error in src/unipp.hpp.
PANIC(variant, msg) ==
    [exc |-> IF variant = "W" THEN "Fail" ELSE "std", msg |-> msg]

\* WARNING(msg), of src/unipp/unipp.hpp only.
WARNING(msg) == [exc |-> "Warning", msg |-> msg]

NoException == [exc |-> "none", msg |-> ""]

\* What one statement raises. "std" is a std::exception that is neither Fail
\* nor Warning; "other" is an exception that is no std::exception (throw 42).
Statement(variant, s) ==
    CASE s.op = "THROW_STD"   -> [exc |-> "std", msg |-> s.msg]
      [] s.op = "THROW_OTHER" -> [exc |-> "other", msg |-> s.msg]
      [] s.op \in AssertOps   ->
            IF Violated(RelationOf(s.op), s.a, s.b) THEN PANIC(variant, s.msg)
                                                     ELSE NoException
      [] s.op \in ExpectOps   ->
            IF Violated(RelationOf(s.op), s.a, s.b) THEN WARNING(s.msg)
                                                     ELSE NoException

\* test(): the statements run in order from statement k; the first one that
\* raises ends the call. evaluated is the number of statements reached.
RECURSIVE ExecFrom(_, _, _)
ExecFrom(variant, t, k) ==
    IF k > Len(t)
    THEN [exc |-> "none", msg |-> "", evaluated |-> Len(t)]
    ELSE LET r == Statement(variant, t[k]) IN
         IF r.exc # "none"
         THEN [exc |-> r.exc, msg |-> r.msg, evaluated |-> k]
         ELSE ExecFrom(variant, t, k + 1)

Call(variant, t) == ExecFrom(variant, t, 1)

--------------------------------------------------------------------------
(* Test functions *)

\* test1 of the examples: a = 2, b = 2.
test1 ==
    << Chk("ASSERT_NOT_EQUAL", 2, 2, "Expected a to be equal to b"),
       Chk("ASSERT_GREATER", 2 + 2, 10, "Expected a + b to be less than 10") >>

\* test2 of the examples: a = 1, b = 2.
test2 == << Chk("ASSERT_EQUAL", 1, 2, "Expected a to be equal to b") >>

\* A test function whose checks all hold.
passing == << Chk("ASSERT_EQUAL", 1, 1, "Expected a to be equal to b") >>

\* The first check of test() of expected_values.cpp, on a total of 30 ms.
warning == << Chk("EXPECT_LESS", 30, 20, "Expected benchmark to take less than 20 ms") >>

\* Test functions that throw an exception of the user's own.
throws_std   == << Chk("THROW_STD", 0, 0, "std::runtime_error") >>
throws_other == << Chk("THROW_OTHER", 0, 0, "") >>

--------------------------------------------------------------------------
(* Tests, suites and the arguments of RUN *)

SetupAndTeardownType == { "NONE", "PER_TEST", "PER_SUITE" }

\* TEST(name, description, testfunction): a UnitTest holding the function.
TEST(t) ==
    [kind |-> "test", cls |-> "UnitTest", built |-> "TEST",
     setup_type |-> "NONE", hooks |-> "ok", tests |-> << t >>]

\* TestSuite's constructor: AddTests pushes the tests back in argument order.
\* cls is the dynamic type of the object, on which a virtual call dispatches.
TestSuite(setup_type, ts) ==
    [kind |-> "suite", cls |-> "TestSuite", built |-> "TestSuite",
     setup_type |-> setup_type, hooks |-> "ok", tests |-> ts]

\* SUITE(name, description, ...). In src/unipp.hpp it passes NONE; the
\* TestSuite of src/unipp/unipp.hpp has no hooks and no setup type at all.
SUITE(ts) == [TestSuite("NONE", ts) EXCEPT !.built = "SUITE"]

\* CUSTOM_SUITE(custom_suite_class, name, description, setup_type, ...): an
\* object of a class derived from TestSuite that overrides Setup and Teardown
\* and has the DEFAULT_CONSTRUCTOR. hooks says what the overrides do.
\* "setup_throws_once": Setup throws the first time it is invoked only.
HookBehaviours == { "ok", "setup_throws", "setup_throws_once", "teardown_throws" }

CUSTOM_SUITE(hooks, setup_type, ts) ==
    [TestSuite(setup_type, ts) EXCEPT !.cls = "Custom", !.built = "CUSTOM_SUITE",
                                      !.hooks = hooks]

\* The test functions the runners are given.
TestFunctions(variant) ==
    IF variant = "W" THEN { passing, test1, warning, throws_std }
                     ELSE { passing, test2, throws_other }

\* All sequences of n test functions.
TestsOfLen(variant, n) ==
    { [k \in 1..n |-> f[k]] : f \in [1..n -> TestFunctions(variant)] }

\* The suites with n tests that can be passed to RUN.
SuitesOfLen(variant, n) ==
    IF variant = "W"
    THEN { SUITE(ts) : ts \in TestsOfLen(variant, n) }
    ELSE { SUITE(ts) : ts \in TestsOfLen(variant, n) }
         \cup { TestSuite(st, ts) :
                    st \in { "PER_TEST", "PER_SUITE" }, ts \in TestsOfLen(variant, n) }
         \cup { CUSTOM_SUITE("ok", st, ts) :
                    st \in SetupAndTeardownType, ts \in TestsOfLen(variant, n) }

\* The arguments of size s: a standalone test has size 1, a suite 1 + its tests.
ItemsOfSize(variant, s) ==
    (IF s = 1 THEN { TEST(t) : t \in TestFunctions(variant) } ELSE {})
    \cup SuitesOfLen(variant, s - 1)

\* The ways of splitting a total size n into the sizes of the arguments.
RECURSIVE Compositions(_)
Compositions(n) ==
    IF n = 0 THEN { << >> }
    ELSE UNION { { << s >> \o c : c \in Compositions(n - s) } : s \in 1..n }

\* The argument lists whose arguments have the sizes of shape, as nested
\* pairs << first, rest >>, and the sequence such a nest stands for.
RECURSIVE Prod(_, _)
Prod(variant, shape) ==
    IF shape = << >> THEN { << >> }
    ELSE ItemsOfSize(variant, Head(shape)) \X Prod(variant, Tail(shape))

RECURSIVE Flatten(_)
Flatten(x) == IF x = << >> THEN << >> ELSE << x[1] >> \o Flatten(x[2])

\* items is an argument list of RUN of total size at most MaxSize.
GivenArguments(variant) ==
    \E n \in 0..MaxSize : \E shape \in Compositions(n) :
        \E x \in Prod(variant, shape) : items = Flatten(x)

--------------------------------------------------------------------------
(* The record of a run *)

\* One entry of out. A line of output: "SUITE", "END SUITE", "Running",
\* "Description", "PASSED", "WARNING", "FAILED" (msg is the text after the
\* colon). An invocation: "call" of a test function (exc and msg are what it
\* raised), "Setup" and "Teardown" (exc is the class whose hook ran).
\* item and test place the entry: test is 0 for what belongs to a suite as a whole.
Ev(ev, item, test, exc, msg) ==
    [ev |-> ev, item |-> item, test |-> test, exc |-> exc, msg |-> msg]

Terminal == { "PASSED", "WARNING", "FAILED" }

--------------------------------------------------------------------------
(* src/unipp/unipp.hpp: UnitTest::Run, TestSuite::Run, TestRunner::RunAll *)

\* Handlers with one handler for both exceptions, as src/unipp.hpp has:
\* a Warning is reported as a failure.
Handlers_OneHandler(r, i, j) ==
    CASE r.exc = "none"               -> [lines |-> << Ev("PASSED", i, j, "", "") >>,
                                          escaped |-> FALSE]
      [] r.exc \in { "Warning", "Fail" } -> [lines |-> << Ev("FAILED", i, j, "", r.msg) >>,
                                          escaped |-> FALSE]
      [] OTHER                        -> [lines |-> << >>, escaped |-> TRUE]

\* The try block's end and the two handlers of UnitTest::Run, given what
\* test() raised: the terminal line, or no line when no handler matches and
\* the exception leaves Run.
Handlers(r, i, j) ==
    CASE r.exc = "none"    -> [lines |-> << Ev("PASSED", i, j, "", "") >>, escaped |-> FALSE]
      [] r.exc = "Warning" -> [lines |-> << Ev("WARNING", i, j, "", r.msg) >>, escaped |-> FALSE]
      [] r.exc = "Fail"    -> [lines |-> << Ev("FAILED", i, j, "", r.msg) >>, escaped |-> FALSE]
      [] OTHER             -> [lines |-> << >>, escaped |-> TRUE]

\* UnitTest::Run of test j of argument i: what it prints, and whether the
\* exception of the test function leaves it.
UnitTestRun(t, i, j) ==
    LET r == Call("W", t)
        h == Handlers(r, i, j)
    IN  [lines |-> << Ev("Running", i, j, "", ""), Ev("Description", i, j, "", ""),
                      Ev("call", i, j, r.exc, r.msg) >> \o h.lines,
         escaped |-> h.escaped]

\* The by-value TestSuite parameter of RunAll: the argument's TestSuite
\* subobject is copied, so the parameter's dynamic type is TestSuite.
ByValue(arg) == [arg EXCEPT !.cls = "TestSuite", !.hooks = "ok"]

\* ArgIndex had RunAll recursed before running its first argument
\* (RunAll(suites...) before suite.Run()): the last argument runs first.
ArgIndex_RecurseFirst(p) == Len(items) + 1 - p

\* The index of the argument RunAll handles at recursion depth p.
ArgIndex(p) == p

\* RunAll(TestSuite suite, TestSuites... suites): suite.Run() prints the header.
W_RunAllSuite ==
    /\ pc = "RunAll"
    /\ pos <= Len(items)
    /\ items[ArgIndex(pos)].kind = "suite"
    /\ suite' = ByValue(items[ArgIndex(pos)])
    /\ out' = Append(out, Ev("SUITE", ArgIndex(pos), 0, "", ""))
    /\ tpos' = 1
    /\ pc' = "Suite"
    /\ UNCHANGED << entry, items, pos >>

\* TestSuite::Run: one pass of `for (auto test : tests_) test.Run();`
W_SuiteTest ==
    /\ pc = "Suite"
    /\ tpos <= Len(suite.tests)
    /\ LET r == UnitTestRun(suite.tests[tpos], ArgIndex(pos), tpos) IN
        /\ out' = out \o r.lines
        /\ IF r.escaped
           THEN pc' = "terminated" /\ tpos' = tpos
           ELSE pc' = pc /\ tpos' = tpos + 1
    /\ UNCHANGED << entry, items, pos, suite >>

\* TestSuite::Run after the loop, then RunAll(suites...).
W_SuiteEnd ==
    /\ pc = "Suite"
    /\ tpos > Len(suite.tests)
    /\ out' = Append(out, Ev("END SUITE", ArgIndex(pos), 0, "", ""))
    /\ pos' = pos + 1
    /\ pc' = "RunAll"
    /\ UNCHANGED << entry, items, tpos, suite >>

\* RunAll(UnitTest test, Tests... tests): test.Run(), then RunAll(tests...).
W_RunAllTest ==
    /\ pc = "RunAll"
    /\ pos <= Len(items)
    /\ items[ArgIndex(pos)].kind = "test"
    /\ LET r == UnitTestRun(items[ArgIndex(pos)].tests[1], ArgIndex(pos), 1) IN
        /\ out' = out \o r.lines
        /\ IF r.escaped
           THEN pc' = "terminated" /\ pos' = pos
           ELSE pc' = pc /\ pos' = pos + 1
    /\ UNCHANGED << entry, items, tpos, suite >>

\* RunAll(): the base case of the recursion; RUN returns.
RunAllBase ==
    /\ pc = "RunAll"
    /\ pos > Len(items)
    /\ pc' = "done"
    /\ UNCHANGED << entry, items, pos, tpos, suite, out >>

NoSuite == TestSuite("NONE", << >>)

BenchIdle ==
    /\ iterations = 0
    /\ elapsed = << >>
    /\ total_time = 0
    /\ result = [total |-> 0, average |-> 0]
    /\ bpc = "idle"

CheckIdle ==
    /\ body = << >>
    /\ stmt = 1
    /\ raised = NoException

InitW ==
    /\ entry = "RunAll"
    /\ GivenArguments("W")
    /\ pc = "RunAll"
    /\ pos = 1
    /\ tpos = 1
    /\ suite = NoSuite
    /\ out = << >>
    /\ BenchIdle
    /\ CheckIdle

NextW ==
    \/ W_RunAllSuite /\ UNCHANGED << benchVars, checkVars >>
    \/ W_SuiteTest /\ UNCHANGED << benchVars, checkVars >>
    \/ W_SuiteEnd /\ UNCHANGED << benchVars, checkVars >>
    \/ W_RunAllTest /\ UNCHANGED << benchVars, checkVars >>
    \/ RunAllBase /\ UNCHANGED << benchVars, checkVars >>

\* RUN(...) with src/unipp/unipp.hpp.
SpecW == InitW /\ [][NextW]_vars

--------------------------------------------------------------------------
(* src/unipp.hpp: TestSuite::Run with hooks, TestRunner::RunAll, RunTest *)

\* The virtual call Setup() or Teardown() on the object s: the entry it
\* leaves in out, and whether the hook that ran throws (a std::exception).
\* TestSuite's own hooks are empty.
Hook(s, h, i, j) ==
    [lines |-> << Ev(h, i, j, s.cls, "") >>,
     exc   |-> IF s.cls = "Custom"
                  /\ \/ h = "Setup" /\ s.hooks = "setup_throws"
                     \/ h = "Setup" /\ s.hooks = "setup_throws_once" /\ j <= 1
                     \/ h = "Teardown" /\ s.hooks = "teardown_throws"
               THEN "std" ELSE "none",
     msg   |-> IF s.cls = "Custom" THEN "hook failed" ELSE ""]

\* IfNeeded without the test of the setup type: the hook always runs.
IfNeeded_Always(s, when, h, i, j) == Hook(s, h, i, j)

\* RUN_SETUP_BEFORE_SUITE_IF_NEEDED / RUN_TEARDOWN_AFTER_SUITE_IF_NEEDED /
\* RUN_SETUP_BEFORE_TEST_IF_NEEDED / RUN_TEARDOWN_AFTER_TEST_IF_NEEDED:
\* the hook h runs when the suite's setup type is `when`.
IfNeeded(s, when, h, i, j) ==
    IF s.setup_type = when THEN Hook(s, h, i, j)
                           ELSE [lines |-> << >>, exc |-> "none", msg |-> ""]

\* catch (const std::exception& e): Fail, Warning and std::runtime_error are
\* std::exceptions, an exception of any other type is not caught.
IsStdException(exc) == exc \in { "std", "Fail", "Warning" }

\* TryBlock going on to the test function and the teardown after a Setup
\* that threw, as if the exception of Setup were swallowed.
TryBlock_SetupSwallowed(s, i, j) ==
    LET su == IfNeeded(s, "PER_TEST", "Setup", i, j)
        r  == Call("H", s.tests[j])
        cl == << Ev("call", i, j, r.exc, r.msg) >>
        td == IfNeeded(s, "PER_TEST", "Teardown", i, j)
    IN  IF r.exc # "none"
        THEN [lines |-> su.lines \o cl, exc |-> r.exc, msg |-> r.msg]
        ELSE [lines |-> su.lines \o cl \o td.lines, exc |-> td.exc, msg |-> td.msg]

\* The body of the try block of TestSuite::Run for test j of the suite s:
\* setup, the test function, teardown; the first that throws ends the block.
TryBlock(s, i, j) ==
    LET su == IfNeeded(s, "PER_TEST", "Setup", i, j)
        r  == Call("H", s.tests[j])
        cl == << Ev("call", i, j, r.exc, r.msg) >>
        td == IfNeeded(s, "PER_TEST", "Teardown", i, j)
    IN  IF su.exc # "none"
        THEN [lines |-> su.lines, exc |-> su.exc, msg |-> su.msg]
        ELSE IF r.exc # "none"
        THEN [lines |-> su.lines \o cl, exc |-> r.exc, msg |-> r.msg]
        ELSE [lines |-> su.lines \o cl \o td.lines, exc |-> td.exc, msg |-> td.msg]

\* One pass of the loop of TestSuite::Run: the two lines, the try block and
\* its handler.
SuiteTestRun(s, i, j) ==
    LET b == TryBlock(s, i, j)
        head == << Ev("Running", i, j, "", ""), Ev("Description", i, j, "", "") >> \o b.lines
    IN  IF b.exc = "none"
        THEN [lines |-> Append(head, Ev("PASSED", i, j, "", "")), escaped |-> FALSE]
        ELSE IF IsStdException(b.exc)
        THEN [lines |-> Append(head, Ev("FAILED", i, j, "", b.msg)), escaped |-> FALSE]
        ELSE [lines |-> head, escaped |-> TRUE]

\* TestRunner::RunTest for the standalone test at argument i.
RunTest(t, i) ==
    LET r == Call("H", t)
        head == << Ev("Running", i, 1, "", ""), Ev("Description", i, 1, "", ""),
                   Ev("call", i, 1, r.exc, r.msg) >>
    IN  IF r.exc = "none"
        THEN [lines |-> Append(head, Ev("PASSED", i, 1, "", "")), escaped |-> FALSE]
        ELSE IF IsStdException(r.exc)
        THEN [lines |-> Append(head, Ev("FAILED", i, 1, "", r.msg)), escaped |-> FALSE]
        ELSE [lines |-> head, escaped |-> TRUE]

\* TestSuite::Run up to its loop, on the object s: the header and the
\* per-suite setup, which no handler surrounds.
SuiteBegin(s, i) ==
    LET su == IfNeeded(s, "PER_SUITE", "Setup", i, 0) IN
    /\ suite' = s
    /\ out' = Append(out, Ev("SUITE", i, 0, "", "")) \o su.lines
    /\ tpos' = 1
    /\ pc' = IF su.exc = "none" THEN "Suite" ELSE "terminated"

\* RunAll(TestSuite suite, TestSuites... suites): suite.Run() on the copy.
H_RunAllSuite ==
    /\ entry = "RunAll"
    /\ pc = "RunAll"
    /\ pos <= Len(items)
    /\ items[ArgIndex(pos)].kind = "suite"
    /\ SuiteBegin(ByValue(items[ArgIndex(pos)]), ArgIndex(pos))
    /\ UNCHANGED << entry, items, pos >>

\* s.Run() called on a suite object itself (Run is public).
H_Run ==
    /\ entry = "Run"
    /\ pc = "Run"
    /\ SuiteBegin(items[1], 1)
    /\ UNCHANGED << entry, items, pos >>

\* TestSuite::Run: one pass of the loop over tests_.
H_SuiteTest ==
    /\ pc = "Suite"
    /\ tpos <= Len(suite.tests)
    /\ LET r == SuiteTestRun(suite, ArgIndex(pos), tpos) IN
        /\ out' = out \o r.lines
        /\ IF r.escaped
           THEN pc' = "terminated" /\ tpos' = tpos
           ELSE pc' = pc /\ tpos' = tpos + 1
    /\ UNCHANGED << entry, items, pos, suite >>

\* TestSuite::Run after the loop: the per-suite teardown, which no handler
\* surrounds; then Run returns, into RunAll(suites...) or to the caller.
H_SuiteEnd ==
    /\ pc = "Suite"
    /\ tpos > Len(suite.tests)
    /\ LET td == IfNeeded(suite, "PER_SUITE", "Teardown", ArgIndex(pos), 0) IN
        /\ out' = out \o td.lines
        /\ IF td.exc # "none"
           THEN pc' = "terminated" /\ pos' = pos
           ELSE IF entry = "Run"
           THEN pc' = "done" /\ pos' = pos
           ELSE pc' = "RunAll" /\ pos' = pos + 1
    /\ UNCHANGED << entry, items, tpos, suite >>

\* RunAll(UnitTest test, Tests... tests): RunTest(test), then RunAll(tests...).
H_RunAllTest ==
    /\ pc = "RunAll"
    /\ pos <= Len(items)
    /\ items[ArgIndex(pos)].kind = "test"
    /\ LET r == RunTest(items[ArgIndex(pos)].tests[1], ArgIndex(pos)) IN
        /\ out' = out \o r.lines
        /\ IF r.escaped
           THEN pc' = "terminated" /\ pos' = pos
           ELSE pc' = pc /\ pos' = pos + 1
    /\ UNCHANGED << entry, items, tpos, suite >>

\* The suite objects Run() is called on directly: of either class, with
\* any setup type, and hooks that return or throw.
DirectSuites ==
    UNION { { TestSuite(st, ts) : st \in SetupAndTeardownType, ts \in TestsOfLen("H", n) }
            \cup { CUSTOM_SUITE(hb, st, ts) : hb \in HookBehaviours,
                       st \in SetupAndTeardownType, ts \in TestsOfLen("H", n) }
            : n \in 0..(MaxSize - 1) }

InitH ==
    /\ \/ /\ entry = "RunAll"
          /\ GivenArguments("H")
          /\ pc = "RunAll"
       \/ /\ entry = "Run"
          /\ items \in { << s >> : s \in DirectSuites }
          /\ pc = "Run"
    /\ pos = 1
    /\ tpos = 1
    /\ suite = NoSuite
    /\ out = << >>
    /\ BenchIdle
    /\ CheckIdle

NextH ==
    \/ H_RunAllSuite /\ UNCHANGED << benchVars, checkVars >>
    \/ H_Run /\ UNCHANGED << benchVars, checkVars >>
    \/ H_SuiteTest /\ UNCHANGED << benchVars, checkVars >>
    \/ H_SuiteEnd /\ UNCHANGED << benchVars, checkVars >>
    \/ H_RunAllTest /\ UNCHANGED << benchVars, checkVars >>
    \/ RunAllBase /\ UNCHANGED << benchVars, checkVars >>

\* RUN(...) and suite.Run() with src/unipp.hpp.
SpecH == InitH /\ [][NextH]_vars

--------------------------------------------------------------------------
(* src/unipp/unipp.hpp: Benchmark *)

\* Nanoseconds in a millisecond: duration_cast<std::chrono::milliseconds>.
NsPerMs == 1000000

\* end - start of one call, in nanoseconds.
Durations == { 0, 999999, 1000000, 2500000 }

\* Integer division of C++: the quotient truncated towards zero (b # 0).
CppDiv(a, b) ==
    LET abs(x) == IF x < 0 THEN -x ELSE x
        q == abs(a) \div abs(b)
    IN  IF (a < 0) = (b < 0) THEN q ELSE -q

\* std::chrono::duration_cast<std::chrono::milliseconds>(end - start).
DurationCastMs(ns) == CppDiv(ns, NsPerMs)

\* Average rounding the quotient up instead of truncating it.
Average_RoundUp(total, n) == CppDiv(total + n - 1, n)

\* result.average = total_time.count() / iterations.
Average(total, n) == CppDiv(total, n)

\* One pass of the loop: test() returns after some time.
B_Iteration ==
    /\ bpc = "loop"
    /\ Len(elapsed) < iterations
    /\ \E ns \in Durations :
        /\ elapsed' = Append(elapsed, ns)
        /\ total_time' = total_time + DurationCastMs(ns)
    /\ UNCHANGED << iterations, result, bpc >>

\* One pass of the loop in which test() throws: the exception leaves Benchmark.
B_Throws ==
    /\ bpc = "loop"
    /\ Len(elapsed) < iterations
    /\ bpc' = "escaped"
    /\ UNCHANGED << iterations, elapsed, total_time, result >>

\* After the loop: the result. A division by zero is undefined behaviour:
\* the program is stopped by a signal, or the quotient is some value.
B_Return ==
    /\ bpc = "loop"
    /\ ~ (Len(elapsed) < iterations)
    /\ IF iterations # 0
       THEN /\ result' = [total |-> total_time, average |-> Average(total_time, iterations)]
            /\ bpc' = "done"
       ELSE \/ /\ bpc' = "crashed"
               /\ result' = result
            \/ /\ bpc' = "done"
               /\ \E q \in { -1, 0, 1 } :
                    result' = [total |-> total_time, average |-> q]
    /\ UNCHANGED << iterations, elapsed, total_time >>

RunnerIdle ==
    /\ entry = "none"
    /\ items = << >>
    /\ pc = "idle"
    /\ pos = 1
    /\ tpos = 1
    /\ suite = NoSuite
    /\ out = << >>

InitB ==
    /\ iterations \in -1..MaxIterations
    /\ elapsed = << >>
    /\ total_time = 0
    /\ result = [total |-> 0, average |-> 0]
    /\ bpc = "loop"
    /\ RunnerIdle
    /\ CheckIdle

NextB ==
    \/ B_Iteration /\ UNCHANGED << runnerVars, checkVars >>
    \/ B_Throws /\ UNCHANGED << runnerVars, checkVars >>
    \/ B_Return /\ UNCHANGED << runnerVars, checkVars >>

\* BENCHMARK(function, iterations).
SpecB == InitB /\ [][NextB]_vars

--------------------------------------------------------------------------
(* src/unipp/unipp.hpp: UnitTest::Run, the test function statement by statement *)

\* The values the operands of a check take.
Operands == { 0, 1, 2 }

\* The test functions made of one statement: every macro on every pair of
\* operands, with the macro's name as its message, and the two throws.
OneStatement ==
    { << Chk(op, a, b, op) >> : op \in AssertOps \cup ExpectOps, a \in Operands, b \in Operands }
    \cup { throws_std, throws_other }

\* The checks longer test functions are made of: one that holds and one that
\* is violated, of either severity.
SomeChecks ==
    { [op |-> op, a |-> a] : op \in { "ASSERT_TRUE", "EXPECT_TRUE" }, a \in { 0, 1 } }

\* The test functions of n of these checks; the message of the k-th check
\* names its place.
ChecksOfLen(n) ==
    { [k \in 1..n |-> Chk(f[k].op, f[k].a, 0, "check " \o ToString(k))] :
        f \in [1..n -> SomeChecks] }

TestBodies ==
    OneStatement \cup { << >>, test1, test2, warning }
    \cup UNION { ChecksOfLen(n) : n \in 2..MaxStmts }

\* UnitTest::Run up to the try block: the two lines.
C_Begin ==
    /\ pc = "begin"
    /\ out' = << Ev("Running", 1, 1, "", ""), Ev("Description", 1, 1, "", "") >>
    /\ pc' = "body"
    /\ UNCHANGED << entry, items, pos, tpos, suite, body, stmt, raised >>

\* C_Statement for checks that note their signal and let the test function
\* go on: a statement is evaluated even after an earlier one raised.
C_Statement_GoesOn ==
    /\ pc = "body"
    /\ stmt <= Len(body)
    /\ raised' = IF raised.exc = "none" THEN Statement("W", body[stmt]) ELSE raised
    /\ stmt' = stmt + 1
    /\ UNCHANGED << runnerVars, body >>

\* test(): its next statement; stmt - 1 statements have been evaluated.
C_Statement ==
    /\ pc = "body"
    /\ raised.exc = "none"
    /\ stmt <= Len(body)
    /\ raised' = Statement("W", body[stmt])
    /\ stmt' = stmt + 1
    /\ UNCHANGED << runnerVars, body >>

\* test() has returned or thrown: the end of the try block, or a handler.
C_Report ==
    /\ pc = "body"
    /\ raised.exc # "none" \/ stmt > Len(body)
    /\ LET h == Handlers(raised, 1, 1) IN
        /\ out' = out \o h.lines
        /\ pc' = IF h.escaped THEN "terminated" ELSE "done"
    /\ UNCHANGED << entry, items, pos, tpos, suite, body, stmt, raised >>

InitC ==
    /\ entry = "UnitTest::Run"
    /\ items = << >>
    /\ pc = "begin"
    /\ pos = 1
    /\ tpos = 1
    /\ suite = NoSuite
    /\ out = << >>
    /\ body \in TestBodies
    /\ stmt = 1
    /\ raised = NoException
    /\ BenchIdle

NextC ==
    \/ C_Begin /\ UNCHANGED benchVars
    \/ C_Statement /\ UNCHANGED benchVars
    \/ C_Report /\ UNCHANGED benchVars

\* One UnitTest::Run, with src/unipp/unipp.hpp.
SpecC == InitC /\ [][NextC]_vars

--------------------------------------------------------------------------
(* Reading the record of a run *)

\* The tests given to the runner: << i, j >> is test j of argument i.
GivenTests ==
    { ij \in (1..Len(items)) \X (1..MaxSize) : ij[2] <= Len(items[ij[1]].tests) }

\* The positions in out of the entries ev of test j of argument i.
At(ev, i, j) ==
    { k \in 1..Len(out) : out[k].ev = ev /\ out[k].item = i /\ out[k].test = j }

\* The lines printed for test j of argument i, in order.
LinesOf(i, j) ==
    SelectSeq(out, LAMBDA e : e.item = i /\ e.test = j
                              /\ e.ev \in { "Running", "Description" } \cup Terminal)

\* The terminal lines printed for test j of argument i.
TerminalsOf(i, j) ==
    { k \in 1..Len(out) : out[k].ev \in Terminal /\ out[k].item = i /\ out[k].test = j }

\* RunAll is over: it returned, or an exception left it.
RunAllOver == pc \in { "done", "terminated" }

--------------------------------------------------------------------------
(* Claims about src/unipp/unipp.hpp, checked under SpecW *)

\* C1: UnitTest::Run reports PASSED if and only if the test function returns
\* without raising, WARNING if and only if it raises a Warning, FAILED if and
\* only if it raises a Fail; the WARNING and FAILED lines carry exactly the
\* message raised. Every invocation of a test function is followed at once
\* by the line its outcome calls for (by none when it raised anything else),
\* every terminal line follows the invocation it reports, and what the
\* invocation raised is what the given test function raises.
C1_Classification ==
    /\ \A k \in 1..Len(out) :
        out[k].ev = "call" =>
            LET c == out[k]
                r == Call("W", items[c.item].tests[c.test])
                reported == k < Len(out) /\ out[k + 1].ev \in Terminal
                            /\ out[k + 1].item = c.item /\ out[k + 1].test = c.test
                line(l) == reported /\ out[k + 1].ev = l
            IN  /\ c.exc = r.exc /\ c.msg = r.msg
                /\ line("PASSED") <=> c.exc = "none"
                /\ line("WARNING") <=> c.exc = "Warning"
                /\ line("FAILED") <=> c.exc = "Fail"
                /\ line("WARNING") \/ line("FAILED") => out[k + 1].msg = c.msg
    /\ \A k \in 1..Len(out) :
        out[k].ev \in Terminal =>
            /\ k > 1
            /\ out[k - 1].ev = "call"
            /\ out[k - 1].item = out[k].item /\ out[k - 1].test = out[k].test

\* A run that is over and has reported a PASSED, a WARNING with the message
\* of its EXPECT_LESS and a FAILED with the message of its ASSERT.
C1_Witness ==
    /\ pc = "done"
    /\ \E k \in 1..Len(out) : out[k].ev = "PASSED"
    /\ \E k \in 1..Len(out) :
        out[k].ev = "WARNING" /\ out[k].msg = "Expected benchmark to take less than 20 ms"
    /\ \E k \in 1..Len(out) :
        out[k].ev = "FAILED" /\ out[k].msg = "Expected a to be equal to b"

\* C2 (as claimed): whatever the test function of a test that is run does,
\* the output for that test is exactly a start line, a description line and
\* one terminal line. (The steps of the model are whole calls of
\* UnitTest::Run, so a test that has a start line has been run to its end.)
C2_Original ==
    \A ij \in GivenTests :
        At("Running", ij[1], ij[2]) # {} =>
            LET ls == LinesOf(ij[1], ij[2]) IN
            /\ Len(ls) = 3
            /\ ls[1].ev = "Running" /\ ls[2].ev = "Description" /\ ls[3].ev \in Terminal

\* C3 (as claimed): once RunAll is over, the test function of every test
\* given to it has been invoked exactly once, whatever the tests before it did.
C3_Original ==
    RunAllOver =>
        \A ij \in GivenTests : Cardinality(At("call", ij[1], ij[2])) = 1

\* The place of an entry within its argument: the header first, the tests in
\* their order, the end line last.
Rank(e) ==
    CASE e.ev = "SUITE"     -> 0
      [] e.ev = "END SUITE" -> Len(items[e.item].tests) + 1
      [] OTHER              -> e.test

\* C4: RunAll handles its arguments strictly in argument order, for any mix
\* of suites and standalone tests. The entries of out are in argument order
\* and, within an argument, in the order header, tests as declared, end;
\* test j of argument i runs the j-th test function given; when anything of
\* an argument is in out, every earlier argument's header (of a suite) and
\* every earlier test's start and terminal line are before it.
C4_ArgumentOrder ==
    /\ \A k, l \in 1..Len(out) :
        k < l => /\ out[k].item <= out[l].item
                 /\ out[k].item = out[l].item => Rank(out[k]) <= Rank(out[l])
    /\ \A k \in 1..Len(out) :
        /\ out[k].item \in 1..Len(items)
        /\ out[k].ev = "call" =>
              /\ out[k].test \in 1..Len(items[out[k].item].tests)
              /\ out[k].exc = Call("W", items[out[k].item].tests[out[k].test]).exc
              /\ out[k].msg = Call("W", items[out[k].item].tests[out[k].test]).msg
        /\ \A i \in 1..out[k].item :
              /\ items[i].kind = "suite" /\ (i < out[k].item \/ out[k].ev # "SUITE")
                    => \E h \in At("SUITE", i, 0) : h <= k
              /\ \A j \in 1..Len(items[i].tests) :
                    i < out[k].item \/ Rank(out[k]) > j
                        => /\ \E b \in At("Running", i, j) : b < k
                           /\ \E t \in TerminalsOf(i, j) : t < k

\* A finished RUN of a suite of two tests followed by a standalone test
\* followed by anything.
C4_Witness ==
    /\ pc = "done"
    /\ Len(items) >= 2
    /\ items[1].kind = "suite" /\ Len(items[1].tests) = 2
    /\ items[2].kind = "test"
    /\ TerminalsOf(2, 1) # {}

--------------------------------------------------------------------------
(* Claims about src/unipp.hpp, checked under SpecH *)

Hooks == { "Setup", "Teardown" }

\* The suites among the arguments.
GivenSuites == { i \in 1..Len(items) : items[i].kind = "suite" }

\* The hooks that run for argument i do not throw: RunAll runs a TestSuite
\* copy, whose hooks are TestSuite's empty ones.
HooksReturn(i) ==
    entry = "RunAll" \/ items[i].cls = "TestSuite" \/ items[i].hooks = "ok"

\* TestSuite::Run of argument i has returned.
RunReturned(i) ==
    /\ At("SUITE", i, 0) # {}
    /\ pc = "done" \/ (entry = "RunAll" /\ pos > i)

\* TestSuite::Run of argument i is over: it returned, or an exception left it.
RunOver(i) ==
    /\ At("SUITE", i, 0) # {}
    /\ pc \in { "done", "terminated" } \/ (entry = "RunAll" /\ pos > i)

\* C5 (as claimed): in a PER_TEST suite whose hooks return, for every test
\* that has been run Setup is invoked exactly once, before the test
\* function, and Teardown exactly once, after the test function and before
\* the next test's Setup, whether the test passes or fails; after Run has
\* returned, the Setup calls, the Teardown calls and the tests are equally many.
C5_Original ==
    \A i \in GivenSuites :
        items[i].setup_type = "PER_TEST" /\ HooksReturn(i) =>
            /\ \A j \in 1..Len(items[i].tests) :
                TerminalsOf(i, j) # {} =>
                    /\ Cardinality(At("Setup", i, j)) = 1
                    /\ Cardinality(At("Teardown", i, j)) = 1
                    /\ \A su \in At("Setup", i, j), c \in At("call", i, j),
                          td \in At("Teardown", i, j) :
                            /\ su < c /\ c < td
                            /\ \A n \in At("Setup", i, j + 1) : td < n
            /\ RunReturned(i) =>
                LET setups    == { k \in 1..Len(out) : out[k].ev = "Setup" /\ out[k].item = i }
                    teardowns == { k \in 1..Len(out) : out[k].ev = "Teardown" /\ out[k].item = i }
                IN  /\ Cardinality(setups) = Len(items[i].tests)
                    /\ Cardinality(teardowns) = Len(items[i].tests)

\* C6 (as claimed): in a PER_SUITE suite whose hooks return, no hook is
\* invoked for a single test, and once Run is over, whatever the tests did,
\* Setup has been invoked exactly once, before every test function, and
\* Teardown exactly once, after the terminal line of the last test.
C6_Original ==
    \A i \in GivenSuites :
        items[i].setup_type = "PER_SUITE" /\ HooksReturn(i) =>
            /\ \A k \in 1..Len(out) :
                out[k].item = i /\ out[k].ev \in Hooks => out[k].test = 0
            /\ RunOver(i) =>
                /\ Cardinality(At("Setup", i, 0)) = 1
                /\ Cardinality(At("Teardown", i, 0)) = 1
                /\ \A su \in At("Setup", i, 0), j \in 1..Len(items[i].tests) :
                        \A c \in At("call", i, j) : su < c
                /\ \A td \in At("Teardown", i, 0) :
                        /\ TerminalsOf(i, Len(items[i].tests)) # {} \/ items[i].tests = << >>
                        /\ \A j \in 1..Len(items[i].tests) :
                                \A t \in TerminalsOf(i, j) : t < td

C8_Original ==
    entry = "RunAll" =>
        \A k \in 1..Len(out) :
            out[k].ev \in Hooks /\ items[out[k].item].cls = "Custom" => out[k].exc = "Custom"

--------------------------------------------------------------------------
(* Claims about Benchmark, checked under SpecB *)

\* The sum of the durations of ds, each truncated to whole milliseconds.
RECURSIVE SumOfMs(_)
SumOfMs(ds) ==
    IF ds = << >> THEN 0 ELSE (Head(ds) \div NsPerMs) + SumOfMs(Tail(ds))

\* C9: for an iteration count N >= 1, Benchmark never invokes the action
\* more than N times, and when it returns it has invoked it exactly N times,
\* total is the sum of the N per-call times, each truncated to whole
\* milliseconds, and average is their mean in whole milliseconds:
\* average * N <= total < (average + 1) * N.
C9_Benchmark ==
    iterations >= 1 =>
        /\ Len(elapsed) <= iterations
        /\ bpc = "done" =>
            /\ Len(elapsed) = iterations
            /\ result.total = SumOfMs(elapsed)
            /\ result.average * iterations <= result.total
            /\ result.total < (result.average + 1) * iterations

\* Benchmark has returned from three calls, one of 2.5 ms and one of under
\* 1 ms among them, with a total of 4 ms and an average of 1 ms.
C9_Witness ==
    /\ bpc = "done"
    /\ iterations = 3
    /\ \E k \in 1..Len(elapsed) : elapsed[k] = 2500000
    /\ \E k \in 1..Len(elapsed) : elapsed[k] = 999999
    /\ result = [total |-> 4, average |-> 1]

--------------------------------------------------------------------------
(* Claims about the checking macros, checked under SpecC *)

\* UnitTest::Run is over: a terminal line is out, or the exception left it.
Reported == pc \in { "done", "terminated" }

\* C10, its second part: ASSERT_NOT_EQUAL(a, b, msg) raises a failure, with
\* msg, exactly when a and b are not unequal.
C10_NotEqualMacro ==
    Reported /\ Len(body) = 1 /\ body[1].op = "ASSERT_NOT_EQUAL" =>
        /\ raised.exc = "Fail" <=> ~ (body[1].a # body[1].b)
        /\ raised.exc = "Fail" => raised.msg = body[1].msg
        /\ raised.exc \in { "Fail", "none" }

\* C10 (as claimed): in test1, where a = 2 and b = 2, the check
\* ASSERT_NOT_EQUAL(a, b, ...) passes and the check ASSERT_GREATER(a + b,
\* 10, ...) is the one that fails, so test1 is reported FAILED with the
\* message of its ASSERT_GREATER; and ASSERT_NOT_EQUAL raises exactly when
\* its operands are not unequal.
C10_Original ==
    /\ C10_NotEqualMacro
    /\ Reported /\ body = test1 =>
        /\ stmt = 3
        /\ out[Len(out)].ev = "FAILED"
        /\ out[Len(out)].msg = test1[2].msg

--------------------------------------------------------------------------
(* Claims about hooks that throw, checked under SpecH *)

\* The hook h that runs for test j of argument i (j = 0: for the suite as a
\* whole) throws. Only the overrides of a custom suite whose Run() is called
\* on the object itself can: RunAll runs a TestSuite copy.
HookThrows(i, h, j) ==
    entry = "Run" /\ Hook(items[i], h, i, j).exc # "none"

\* C11: in a PER_TEST suite, when Setup raises a std::exception for a test,
\* neither that test's function nor its Teardown is invoked, the next line
\* is that test's FAILED with the hook's message, the exception does not
\* leave Run, and once Run has returned every test of the suite has its
\* terminal line. In a PER_SUITE suite a Setup or Teardown that raises is
\* not caught: the exception leaves Run, the hook's invocation is the last
\* thing that happens, and after a Setup that raised no test was invoked.
C11_HookThrows ==
    \A k \in 1..Len(out) :
        LET e == out[k] IN
        e.ev \in Hooks /\ HookThrows(e.item, e.ev, e.test) =>
            IF items[e.item].setup_type = "PER_TEST"
            THEN e.ev = "Setup" =>
                    /\ At("call", e.item, e.test) = {}
                    /\ At("Teardown", e.item, e.test) = {}
                    /\ k < Len(out)
                    /\ out[k + 1] = Ev("FAILED", e.item, e.test, "",
                                       Hook(items[e.item], "Setup", e.item, e.test).msg)
                    /\ pc = "terminated" => tpos > e.test
                    /\ pc = "done" =>
                          \A j \in 1..Len(items[e.item].tests) : TerminalsOf(e.item, j) # {}
            ELSE /\ items[e.item].setup_type = "PER_SUITE"
                 /\ e.test = 0
                 /\ k = Len(out)
                 /\ pc = "terminated"
                 /\ e.ev = "Setup" =>
                        \A j \in 1..Len(items[e.item].tests) : At("Running", e.item, j) = {}

\* Run has returned from a PER_TEST suite of two tests whose Setup raised
\* for the first test only: the first test is FAILED with the hook's
\* message, the second has been invoked and has PASSED.
C11_Witness ==
    /\ entry = "Run"
    /\ pc = "done"
    /\ items[1].setup_type = "PER_TEST"
    /\ items[1].hooks = "setup_throws_once"
    /\ Len(items[1].tests) = 2
    /\ \E t \in TerminalsOf(1, 1) : out[t].ev = "FAILED" /\ out[t].msg = "hook failed"
    /\ At("call", 1, 1) = {}
    /\ \E t \in TerminalsOf(1, 2) : out[t].ev = "PASSED"

\* The exception of a per-suite Teardown has left Run, after the tests ran.
C11_PerSuiteReached ==
    /\ pc = "terminated"
    /\ items[1].setup_type = "PER_SUITE"
    /\ items[1].hooks = "teardown_throws"
    /\ Len(items[1].tests) = 2
    /\ out[Len(out)].ev = "Teardown"

--------------------------------------------------------------------------
(* Claims about the first signal of a test function, checked under SpecC *)

\* The places of the statements of the test function t that raise when evaluated.
Raising(t) == { k \in 1..Len(t) : Statement("W", t[k]).exc # "none" }

\* The first of them.
FirstRaising(t) == CHOOSE k \in Raising(t) : \A l \in Raising(t) : k <= l

\* C12: the classification of a test is decided by the first signal its
\* function raises, and nothing of the function runs after it. No statement
\* placed after a statement that raises is ever evaluated; what the function
\* has raised is what its first raising statement raises; and the terminal
\* line is the one that signal calls for, with its message: WARNING when the
\* first violated check is an EXPECT_*, whatever a later ASSERT_* would do.
C12_FirstSignal ==
    /\ stmt - 1 <= Len(body)
    /\ \A k \in 1..(stmt - 2) : k \notin Raising(body)
    /\ raised.exc # "none" =>
            /\ stmt - 1 = FirstRaising(body)
            /\ raised = Statement("W", body[stmt - 1])
    /\ raised.exc = "none" /\ stmt > 1 => (stmt - 1) \notin Raising(body)
    /\ Reported =>
        IF Raising(body) = {}
        THEN stmt - 1 = Len(body) /\ out[Len(out)] = Ev("PASSED", 1, 1, "", "")
        ELSE LET f == body[FirstRaising(body)] IN
             /\ stmt - 1 = FirstRaising(body)
             /\ f.op \in ExpectOps => out[Len(out)] = Ev("WARNING", 1, 1, "", f.msg)
             /\ f.op \in AssertOps => out[Len(out)] = Ev("FAILED", 1, 1, "", f.msg)
             /\ f.op \notin ExpectOps \cup AssertOps =>
                    pc = "terminated" /\ out[Len(out)].ev = "Description"

\* A violated EXPECT_TRUE followed by an ASSERT_TRUE that would be violated
\* too: the test is reported WARNING with the message of the first check and
\* only one statement has been evaluated.
C12_Witness ==
    /\ pc = "done"
    /\ Len(body) = 2
    /\ body[1].op = "EXPECT_TRUE" /\ body[2].op = "ASSERT_TRUE"
    /\ Raising(body) = { 1, 2 }
    /\ stmt = 2
    /\ out[Len(out)] = Ev("WARNING", 1, 1, "", "check 1")

--------------------------------------------------------------------------
(* Claims about Benchmark with no iterations, checked under SpecB *)

\* C13 (as claimed): Benchmark is defined for an iteration count of 0: the
\* action is not invoked, no arithmetic error stops the program, and the
\* result returned is total = 0 and average = 0.
C13_Original ==
    iterations = 0 =>
        /\ elapsed = << >>
        /\ bpc \notin { "crashed", "escaped" }
        /\ bpc = "done" => result = [total |-> 0, average |-> 0]

==========================================================================
